---- MODULE Spec2Model ----
(***************************************************************************)
(* Model of scripts/modular_reduce_lut.py: the ML-KEM modular-reduction    *)
(* lookup-table generator for q = 3329.  The script is a straight-line     *)
(* program with two loops; it is modelled statement by statement, with the *)
(* Python global namespace (which names are bound, and to what) and the    *)
(* stream of emitted lines as the state.                                   *)
(***************************************************************************)
EXTENDS Integers, Sequences, FiniteSets, TLC

\* ---------------------------------------------------------------- bounds
\* Largest shift for which the weight function is tabulated in WeightInRange.
MaxShift == 26

\* ------------------------------------------------------------- constants
\* q = 3329
q == 3329

\* the 12-bit output width of the emitted entries (12'd...)
OutMask == 4096

\* ------------------------------------------------------- pure arithmetic
RECURSIVE Pow2(_)
\* 2**n, exact integer exponentiation
Pow2(n) == IF n = 0 THEN 1 ELSE 2 * Pow2(n - 1)

weightNext(shift) == Pow2(shift + 1) % q
weightTrunc(shift) == Pow2(shift) % OutMask
\* (2**shift) % q
weight(shift) == Pow2(shift) % q

RECURSIVE BitAnd(_, _)
\* Python's a & b on non-negative integers
BitAnd(a, b) ==
    IF a = 0 \/ b = 0 THEN 0
    ELSE 2 * BitAnd(a \div 2, b \div 2) + (IF a % 2 = 1 /\ b % 2 = 1 THEN 1 ELSE 0)

RangeDesc(n) == [j \in 1..n |-> n - j]
\* range(n): the sequence 0, 1, ..., n-1
Range(n) == [j \in 1..n |-> j - 1]

Range4Restricted == Range(11)
\* range(16), the bound of the 4-bit loop
Range4 == Range(16)

RangeHighShort == Range(3)
\* range(4), the bound of the 2-bit loop
RangeHigh == Range(4)

SingleValTrunc(i, w) == (i * w) % OutMask
\* val = (i * w) % q
SingleVal(i, w) == (i * w) % q

AddIfBitSwapped(v, i, mask, wt) == IF BitAnd(i, 3 - mask) # 0 THEN v + wt ELSE v
AddAlways(v, i, mask, wt) == v + wt
\* if (i & mask): val += wt
AddIfBit(v, i, mask, wt) == IF BitAnd(i, mask) # 0 THEN v + wt ELSE v

ModQSkipped(v) == v
\* val = val % q
ModQ(v) == v % q

\* the keys of weights_4bit in insertion (= iteration) order
Names4 == <<"LUT_23_20", "LUT_19_16", "LUT_15_12">>

weights4Shifted ==
    [n \in {"LUT_23_20", "LUT_19_16", "LUT_15_12"} |->
        CASE n = "LUT_23_20" -> weight(21)
          [] n = "LUT_19_16" -> weight(17)
          [] n = "LUT_15_12" -> weight(13)]
\* the dict literal weights_4bit
weights4Literal ==
    [n \in {"LUT_23_20", "LUT_19_16", "LUT_15_12"} |->
        CASE n = "LUT_23_20" -> weight(20)
          [] n = "LUT_19_16" -> weight(16)
          [] n = "LUT_15_12" -> weight(12)]

\* the table the high-chunk case statement drives
HighTable == "chunk_high"

\* ----------------------------------------------------------------- state
VARIABLES
    pc,            \* the statement about to execute
    bound,         \* the global names currently bound
    weights_4bit,  \* dict name -> weight
    weight_24, weight_25,
    it,            \* position of the active for-loop iterator (items consumed)
    key,           \* position of the weights_4bit.items() iterator
    name, w,       \* loop targets of the outer loop
    i,             \* loop target of the inner loops
    val,           \* the accumulator / reduced value
    out            \* the lines printed so far

vars == <<pc, bound, weights_4bit, weight_24, weight_25, it, key, name, w, i, val, out>>

\* one printed line
Line(t, k, s, v) == [table |-> t, kind |-> k, sel |-> s, val |-> v]

Emit(l) == out' = Append(out, l)

Init ==
    /\ pc = "define_weights"
    /\ bound = {}
    /\ weights_4bit = [n \in {} |-> 0]
    /\ weight_24 = 0
    /\ weight_25 = 0
    /\ it = 0
    /\ key = 0
    /\ name = ""
    /\ w = 0
    /\ i = 0
    /\ val = 0
    /\ out = <<>>

\* lines 17-24: q = 3329; weights_4bit = {...}
DefineWeights ==
    /\ pc = "define_weights"
    /\ weights_4bit' = weights4Literal
    /\ bound' = bound \cup {"q", "weights_4bit"}
    /\ pc' = "banner4"
    /\ UNCHANGED <<weight_24, weight_25, it, key, name, w, i, val, out>>

\* lines 26-28: the banner of the 4-bit section
PrintBanner4 ==
    /\ pc = "banner4"
    /\ Emit(Line("", "comment", 0, 0))
    /\ pc' = "for_name"
    /\ UNCHANGED <<bound, weights_4bit, weight_24, weight_25, it, key, name, w, i, val>>

\* line 30: for name, w in weights_4bit.items()
ForName ==
    /\ pc = "for_name"
    /\ IF key < Len(Names4)
       THEN /\ key' = key + 1
            /\ name' = Names4[key + 1]
            /\ w' = weights_4bit[Names4[key + 1]]
            /\ bound' = bound \cup {"name", "w"}
            /\ pc' = "case4"
       ELSE /\ pc' = "define_high"
            /\ UNCHANGED <<key, name, w, bound>>
    /\ UNCHANGED <<weights_4bit, weight_24, weight_25, it, i, val, out>>

\* lines 31-32: the table's comment and its case(...) opener; a fresh
\* range(16) iterator is created for line 35
PrintCase4 ==
    /\ pc = "case4"
    /\ out' = out \o <<Line(name, "comment", 0, w), Line(name, "case", 0, 0)>>
    /\ it' = 0
    /\ pc' = "for_i4"
    /\ UNCHANGED <<bound, weights_4bit, weight_24, weight_25, key, name, w, i, val>>

\* line 35: for i in range(16)
ForI4 ==
    /\ pc = "for_i4"
    /\ IF it < Len(Range4)
       THEN /\ it' = it + 1
            /\ i' = Range4[it + 1]
            /\ bound' = bound \cup {"i"}
            /\ pc' = "calc4"
       ELSE /\ pc' = "default4"
            /\ UNCHANGED <<it, i, bound>>
    /\ UNCHANGED <<weights_4bit, weight_24, weight_25, key, name, w, val, out>>

\* line 36: val = (i * w) % q
Calc4 ==
    /\ pc = "calc4"
    /\ val' = SingleVal(i, w)
    /\ bound' = bound \cup {"val"}
    /\ pc' = "print4"
    /\ UNCHANGED <<weights_4bit, weight_24, weight_25, it, key, name, w, i, out>>

\* line 37: print the row  4'd<i>: out = 12'd<val>;
Print4 ==
    /\ pc = "print4"
    /\ Emit(Line(name, "row", i, val))
    /\ pc' = "for_i4"
    /\ UNCHANGED <<bound, weights_4bit, weight_24, weight_25, it, key, name, w, i, val>>

\* line 39: default: out = 12'd0;
Default4 ==
    /\ pc = "default4"
    /\ Emit(Line(name, "default", 0, 0))
    /\ pc' = "endcase4"
    /\ UNCHANGED <<bound, weights_4bit, weight_24, weight_25, it, key, name, w, i, val>>

\* line 40: endcase
Endcase4 ==
    /\ pc = "endcase4"
    /\ Emit(Line(name, "endcase", 0, 0))
    /\ pc' = "for_name"
    /\ UNCHANGED <<bound, weights_4bit, weight_24, weight_25, it, key, name, w, i, val>>

\* lines 45-46: weight_24 = (2**24) % q; weight_25 = (2**25) % q
DefineHigh ==
    /\ pc = "define_high"
    /\ weight_24' = weight(24)
    /\ weight_25' = weight(25)
    /\ bound' = bound \cup {"weight_24", "weight_25"}
    /\ pc' = "case_high"
    /\ UNCHANGED <<weights_4bit, it, key, name, w, i, val, out>>

\* lines 48-53: banner, the two weight comments and case(chunk_high); a
\* fresh range(4) iterator is created for line 55
PrintCaseHigh ==
    /\ pc = "case_high"
    /\ out' = out \o <<Line("", "comment", 0, 0),
                       Line(HighTable, "comment", 0, weight_24),
                       Line(HighTable, "comment", 1, weight_25),
                       Line(HighTable, "case", 0, 0)>>
    /\ it' = 0
    /\ pc' = "for_ih"
    /\ UNCHANGED <<bound, weights_4bit, weight_24, weight_25, key, name, w, i, val>>

\* line 55: for i in range(4)
ForIHigh ==
    /\ pc = "for_ih"
    /\ IF it < Len(RangeHigh)
       THEN /\ it' = it + 1
            /\ i' = RangeHigh[it + 1]
            /\ pc' = "zero"
       ELSE /\ pc' = "default_high"
            /\ UNCHANGED <<it, i>>
    /\ UNCHANGED <<bound, weights_4bit, weight_24, weight_25, key, name, w, val, out>>

\* line 57: val = 0
ZeroVal ==
    /\ pc = "zero"
    /\ val' = 0
    /\ pc' = "bit0"
    /\ UNCHANGED <<bound, weights_4bit, weight_24, weight_25, it, key, name, w, i, out>>

\* line 58: if (i & 1): val += weight_24
AddBit0 ==
    /\ pc = "bit0"
    /\ val' = AddIfBit(val, i, 1, weight_24)
    /\ pc' = "bit1"
    /\ UNCHANGED <<bound, weights_4bit, weight_24, weight_25, it, key, name, w, i, out>>

\* line 59: if (i & 2): val += weight_25
AddBit1 ==
    /\ pc = "bit1"
    /\ val' = AddIfBit(val, i, 2, weight_25)
    /\ pc' = "mod"
    /\ UNCHANGED <<bound, weights_4bit, weight_24, weight_25, it, key, name, w, i, out>>

\* line 61: val = val % q
ModVal ==
    /\ pc = "mod"
    /\ val' = ModQ(val)
    /\ pc' = "print_high"
    /\ UNCHANGED <<bound, weights_4bit, weight_24, weight_25, it, key, name, w, i, out>>

\* line 62: print the row  2'd<i>: high_bit_val = 12'd<val>;
PrintHigh ==
    /\ pc = "print_high"
    /\ Emit(Line(HighTable, "row", i, val))
    /\ pc' = "for_ih"
    /\ UNCHANGED <<bound, weights_4bit, weight_24, weight_25, it, key, name, w, i, val>>

\* line 64: default: high_bit_val = 12'd0;
DefaultHigh ==
    /\ pc = "default_high"
    /\ Emit(Line(HighTable, "default", 0, 0))
    /\ pc' = "endcase_high"
    /\ UNCHANGED <<bound, weights_4bit, weight_24, weight_25, it, key, name, w, i, val>>

\* line 65: endcase; the script ends
EndcaseHigh ==
    /\ pc = "endcase_high"
    /\ Emit(Line(HighTable, "endcase", 0, 0))
    /\ pc' = "done"
    /\ UNCHANGED <<bound, weights_4bit, weight_24, weight_25, it, key, name, w, i, val>>

Next ==
    \/ DefineWeights
    \/ PrintBanner4
    \/ ForName
    \/ PrintCase4
    \/ ForI4
    \/ Calc4
    \/ Print4
    \/ Default4
    \/ Endcase4
    \/ DefineHigh
    \/ PrintCaseHigh
    \/ ForIHigh
    \/ ZeroVal
    \/ AddBit0
    \/ AddBit1
    \/ ModVal
    \/ PrintHigh
    \/ DefaultHigh
    \/ EndcaseHigh

Spec == Init /\ [][Next]_vars

\* ------------------------------------------- the emitted case statements
\* the names of the four tables
Tables4 == {"LUT_23_20", "LUT_19_16", "LUT_15_12"}
AllTables == Tables4 \cup {HighTable}

\* the bit offset a 4-bit table's weight is computed from
Shift4(t) == CASE t = "LUT_23_20" -> 20 [] t = "LUT_19_16" -> 16 [] t = "LUT_15_12" -> 12

\* the number of bit patterns the selector of table t can hold
SelectorDomain(t) == IF t = HighTable THEN 0..3 ELSE 0..15

\* the rows of table t printed so far, in print order
Rows(t) == SelectSeq(out, LAMBDA l : l.table = t /\ l.kind = "row")

\* positions in the output of the lines of a given kind of table t
Positions(t, k) == {p \in 1..Len(out) : out[p].table = t /\ out[p].kind = k}

\* table t has been printed completely (its endcase is out)
CaseClosed(t) == Positions(t, "endcase") # {}

\* which arm of the printed case statement a selector value takes
CaseArm(t, s) ==
    IF \E p \in Positions(t, "row") : out[p].sel = s THEN "row" ELSE "default"

\* the value the printed case statement of table t yields for selector s:
\* the first matching row, otherwise the default entry
CaseOut(t, s) ==
    IF CaseArm(t, s) = "row"
    THEN LET first == CHOOSE p \in Positions(t, "row") :
                         /\ out[p].sel = s
                         /\ \A r \in Positions(t, "row") : out[r].sel = s => p <= r
         IN out[first].val
    ELSE LET d == CHOOSE p \in Positions(t, "default") : TRUE IN out[d].val

\* ---------------------------------------------------------------- claims

\* C1: each of the three 4-bit tables gets exactly 16 rows, one for each
\* chunk_value 0..15, and the row for i carries (i * (2^shift mod 3329)) mod
\* 3329 with shift 20, 16, 12 for LUT_23_20, LUT_19_16, LUT_15_12.
C1_SixteenRowsPerChunk ==
    \A t \in Tables4 :
        /\ \A p \in Positions(t, "row") :
               out[p].val = (out[p].sel * (Pow2(Shift4(t)) % 3329)) % 3329
        /\ CaseClosed(t) =>
               /\ Len(Rows(t)) = 16
               /\ \A c \in 0..15 :
                      Cardinality({p \in Positions(t, "row") : out[p].sel = c}) = 1

C1_Witness ==
    /\ pc = "done"
    /\ \A t \in Tables4 : Len(Rows(t)) = 16 /\ Rows(t)[16].sel = 15

\* C2 as stated: the table of the 4-bit chunk with weight 767 (LUT_15_12)
\* has exactly 16 rows, with 0 -> 0, 1 -> 767 and 15 -> 2176.
C2_Original ==
    CaseClosed("LUT_15_12") =>
        /\ weights_4bit["LUT_15_12"] = 767
        /\ Len(Rows("LUT_15_12")) = 16
        /\ Rows("LUT_15_12")[1] = Line("LUT_15_12", "row", 0, 0)
        /\ Rows("LUT_15_12")[2] = Line("LUT_15_12", "row", 1, 767)
        /\ Rows("LUT_15_12")[16] = Line("LUT_15_12", "row", 15, 2176)

\* C2 (amended): the table of the 4-bit chunk with weight 767 (LUT_15_12)
\* has exactly 16 rows, with 0 -> 0, 1 -> 767 and 15 -> 1518, which is
\* (15 * 767) mod 3329.
C2_Weight767Table ==
    CaseClosed("LUT_15_12") =>
        /\ weights_4bit["LUT_15_12"] = 767
        /\ Len(Rows("LUT_15_12")) = 16
        /\ Rows("LUT_15_12")[1] = Line("LUT_15_12", "row", 0, 0)
        /\ Rows("LUT_15_12")[2] = Line("LUT_15_12", "row", 1, 767)
        /\ Rows("LUT_15_12")[16] = Line("LUT_15_12", "row", 15, 1518)

C2_Witness ==
    /\ CaseClosed("LUT_15_12")
    /\ \E p \in Positions("LUT_15_12", "row") : out[p].sel = 15 /\ out[p].val = 1518

\* C3: weight(shift) is 2^shift mod 3329, a value in 0..3328 (checked
\* against modular doubling from weight(0) = 1), and the five weights the
\* program binds are 767, 2285, 3270, 2385 and 1441.
C3_Weights ==
    /\ weight(0) = 1
    /\ \A s \in 0..MaxShift :
           /\ weight(s) \in 0..3328
           /\ weight(s + 1) = (2 * weight(s)) % 3329
    /\ weight(12) = 767 /\ weight(16) = 2285 /\ weight(20) = 3270
    /\ weight(24) = 2385 /\ weight(25) = 1441
    /\ "weights_4bit" \in bound =>
           /\ weights_4bit["LUT_15_12"] = 767
           /\ weights_4bit["LUT_19_16"] = 2285
           /\ weights_4bit["LUT_23_20"] = 3270
    /\ "weight_24" \in bound => weight_24 = 2385
    /\ "weight_25" \in bound => weight_25 = 1441

C3_Witness ==
    /\ {"weights_4bit", "weight_24", "weight_25"} \subseteq bound
    /\ weight_25 = 1441

\* C4: the high-chunk table has exactly 4 rows, one per value 0..3, each
\* carrying (weight_24 if bit 0 is set, plus weight_25 if bit 1 is set) mod
\* 3329: 0 -> 0, 1 -> 2385, 2 -> 1441, 3 -> 497.
C4_CompositeTable ==
    /\ \A p \in Positions(HighTable, "row") :
           out[p].val = ((IF out[p].sel % 2 = 1 THEN weight_24 ELSE 0)
                         + (IF (out[p].sel \div 2) % 2 = 1 THEN weight_25 ELSE 0)) % 3329
    /\ \A p \in Positions(HighTable, "row") : out[p].sel = 0 => out[p].val = 0
    /\ CaseClosed(HighTable) =>
           Rows(HighTable) = << Line(HighTable, "row", 0, 0),
                                Line(HighTable, "row", 1, 2385),
                                Line(HighTable, "row", 2, 1441),
                                Line(HighTable, "row", 3, 497) >>

C4_Witness ==
    /\ CaseClosed(HighTable)
    /\ \E p \in Positions(HighTable, "row") : out[p].sel = 3 /\ out[p].val = 497

\* the values of the low 12 bits D of a product (bits 11:0)
DSample == 0..(OutMask - 1)

\* C5: once all tables are printed, for every High in 0..3, A, B, C in 0..15
\* and D, the sum of the four table entries and D is congruent modulo 3329
\* to Product = High*2^24 + A*2^20 + B*2^16 + C*2^12 + D.
C5_ReducesProduct ==
    pc = "done" =>
        \A h \in 0..3 :
          LET th == CaseOut(HighTable, h) IN
          \A a \in 0..15 :
            LET ta == th + CaseOut("LUT_23_20", a) IN
            \A b \in 0..15 :
              LET tb == ta + CaseOut("LUT_19_16", b) IN
              \A c \in 0..15 :
                LET tc == tb + CaseOut("LUT_15_12", c)
                    hi == h * 16777216 + a * 1048576 + b * 65536 + c * 4096
                IN \A d \in DSample : (tc + d) % 3329 = (hi + d) % 3329

C5_Witness ==
    /\ pc = "done"
    /\ CaseOut(HighTable, 3) + CaseOut("LUT_23_20", 15) + CaseOut("LUT_19_16", 15)
         + CaseOut("LUT_15_12", 15) + 4095 > 3329

C7_ReducedInRange ==
    /\ \A p \in 1..Len(out) : out[p].kind = "row" => out[p].val \in 0..3328
    /\ val >= 0
    /\ pc = "calc4" => i * w >= 0
    /\ pc \in {"print4", "print_high"} => val \in 0..3328

C7_Witness ==
    /\ pc = "mod"
    /\ val >= 3329

\* C8: within one table rows are printed in strictly increasing chunk_value
\* order starting at 0, no chunk_value twice, and the table's single default
\* entry is printed only after all of its rows.
C8_RowsAscending ==
    \A t \in AllTables :
        /\ Rows(t) # <<>> => Rows(t)[1].sel = 0
        /\ \A a, b \in Positions(t, "row") : a < b => out[a].sel < out[b].sel
        /\ Cardinality(Positions(t, "default")) <= 1
        /\ \A d \in Positions(t, "default") :
               /\ \A r \in Positions(t, "row") : r < d
               /\ \A c \in SelectorDomain(t) : CaseArm(t, c) = "row"

C8_Witness ==
    /\ pc = "done"
    /\ \A t \in AllTables :
           Cardinality(Positions(t, "default")) = 1 /\ Len(Rows(t)) >= 4

\* C9: every printed table is total over its selector's register width (a
\* row for each of 0..15, respectively 0..3), so the default entry, which
\* maps to 0, is never the arm taken for a value the selector can hold.
C9_TablesTotal ==
    \A t \in AllTables :
        /\ \A d \in Positions(t, "default") : out[d].val = 0
        /\ CaseClosed(t) =>
               \A s \in SelectorDomain(t) : CaseArm(t, s) = "row"

C9_Witness ==
    /\ \A t \in AllTables : CaseClosed(t)
    /\ CaseArm(HighTable, 3) = "row"
    /\ CaseArm("LUT_23_20", 15) = "row"

\* C10: on the 2-bit high chunk the per-bit-weight rule agrees with the
\* single-weight rule: every printed row i of the high table carries
\* (i * weight_24) mod 3329, which equals (i * 2^24) mod 3329.
C10_CompositeEqualsSingle ==
    \A p \in Positions(HighTable, "row") :
        /\ out[p].val = (out[p].sel * weight_24) % 3329
        /\ out[p].val = (out[p].sel * 16777216) % 3329

C10_Witness ==
    /\ \E p \in Positions(HighTable, "row") : out[p].sel = 3
    /\ \E p \in Positions(HighTable, "row") : out[p].sel = 2 /\ out[p].val = weight_25

====
